---- MODULE Spec2Model ----
(***************************************************************************)
(* Model of src/image-separator.js: separateObjects (load, scan, flood     *)
(* fill, extraction, parallel encode/write) and the command-line entry.    *)
(***************************************************************************)
EXTENDS Integers, Sequences, FiniteSets, TLC

VARIABLES
    asMain,         \* require.main === module: the run is the command-line run
    threshold,      \* options.threshold
    minPixels,      \* options.minPixels
    maxDimension,   \* options.maxDimension
    width,          \* metadata.width
    height,         \* metadata.height
    pc,             \* position of separateObjects
    scaledWidth,    \* working width
    scaledHeight,   \* working height
    maskData,       \* Uint8Array, one byte per pixel
    compositeData,  \* Uint8Array, four bytes per pixel (RGBA)
    visited,        \* Uint8Array, one flag per pixel, shared by all floodFill calls
    queueX,         \* Int32Array(maxQueueSize)
    queueY,         \* Int32Array(maxQueueSize)
    queueSize,      \* floodFill local
    startX,         \* floodFill parameter
    startY,         \* floodFill parameter
    objectPixels,   \* floodFill local: Set of linear indices
    bounds,         \* floodFill local: {minX, minY, maxX, maxY}
    truncated,      \* history: the capacity test failed in the current floodFill
    scanX,          \* scan loop x
    scanY,          \* scan loop y
    objects,        \* retained components, in push order
    seeds,          \* history: the seed of each retained component
    cut,            \* history: per retained component, whether its fill was truncated
    tasks,          \* per object: state of its encode/write promise
    rasters,        \* per object: the raw RGBA raster handed to the encoder
    files,          \* object_<index>.png on disk: index -> raster written
    outOfOrder,     \* history: a write completed while an earlier object's was pending
    result,         \* value separateObjects resolved with
    error,          \* error separateObjects rejected with
    cliLog,         \* what the command-line handlers printed
    exitCode,       \* process exit status once the process has ended
    run,            \* history: which scan of the same image this is (1 or 2)
    previous        \* history: the components the first scan returned

vars == <<asMain, threshold, minPixels, maxDimension, width, height, pc,
          scaledWidth, scaledHeight, maskData,
          compositeData, visited, queueX, queueY, queueSize, startX, startY,
          objectPixels, bounds, truncated, scanX, scanY, objects, seeds, cut,
          tasks, rasters, files, outOfOrder, result, error, cliLog, exitCode,
          run, previous>>

-----------------------------------------------------------------------------
(* Bounds of the model *)

\* largest working area (scaledWidth * scaledHeight) with an arbitrary mask
MaxArea == 9
\* largest side of the solid (single mask value) images
MaxSolidSide == 4
\* largest minPixels a programmatic caller passes
MaxMinPixels == 2
\* largest side of the images that hold two 3x3 squares
MaxSquaresSide == 7
\* largest source side and largest small maxDimension of the scaling runs
MaxSourceSide == 12
MaxSmallDimension == 6

None == "none"
\* result while separateObjects has not resolved; <<n>> once it resolved with n
NoResult == <<>>
\* exitCode while the process runs; <<status>> once it has ended
NotExited == <<>>

-----------------------------------------------------------------------------
(* Options *)

DefaultThreshold == 240
DefaultMaxDimension == 2000
CliDefaultMinPixels == 150

\* thresholds a programmatic caller passes; mask bytes are 0 or 255
Thresholds == {DefaultThreshold, 255}
MaskValues == {0, 255}
\* maxDimension values a programmatic caller passes
MaxDimensions == {2, DefaultMaxDimension}
\* parseInt(args[2]) for the third argument: NaN (<<>>), or a number (<<n>>)
CliArgs == {<<>>, <<0>>, <<1>>}

\* parseInt(args[2]) || options.minPixels
CliMinPixels(a) == IF a = <<>> \/ a[1] = 0 THEN CliDefaultMinPixels ELSE a[1]

-----------------------------------------------------------------------------
(* Scaling *)

Max(a, b) == IF a >= b THEN a ELSE b
Min(a, b) == IF a <= b THEN a ELSE b

\* rounding towards zero
RoundDown(n, d) == n \div d

\* Math.round(n / d) for n >= 0, d > 0
RoundDiv(n, d) == (2 * n + d) \div (2 * d)

\* Math.round(dim * scale) for a w x h source and maxDimension md:
\* scale = 1 or md / Math.max(w, h)
ScaledDim(dim, w, h, md) ==
    IF w > md \/ h > md
    THEN RoundDiv(dim * md, Max(w, h))
    ELSE dim

RECURSIVE Gcd(_, _)
Gcd(a, b) == IF b = 0 THEN a ELSE Gcd(b, a % b)

RECURSIVE IsPowerOfTwo(_)
IsPowerOfTwo(n) == n = 1 \/ (n > 1 /\ n % 2 = 0 /\ IsPowerOfTwo(n \div 2))

\* md / m is a binary fraction: the double scale, and dim * scale, are exact
ExactScale(md, m) == IsPowerOfTwo(m \div Gcd(md, m))

\* dim * md / m lies halfway between two integers
HalfWay(dim, md, m) == (2 * dim * md) % (2 * m) = m

\* the values Math.round(dim * scale) can take in double arithmetic: the
\* product of a halfway case with an inexact scale may fall just below the
\* half (76 * (2000 / 2432) rounds to 62, not 63)
ScaledDims(dim, w, h, md) ==
    IF (w > md \/ h > md) /\ HalfWay(dim, md, Max(w, h)) /\ ~ExactScale(md, Max(w, h))
    THEN {ScaledDim(dim, w, h, md) - 1, ScaledDim(dim, w, h, md)}
    ELSE {ScaledDim(dim, w, h, md)}

-----------------------------------------------------------------------------
(* Input images *)

\* bytes of the composite buffer of an image of n pixels: every byte differs
\* from its neighbours, and alpha bytes are not all 255
CompositeOf(n) == [i \in 0..(4 * n - 1) |-> (i * 37 + 11) % 256]

SolidMasks(n) == {[p \in 0..(n - 1) |-> v] : v \in MaskValues}

\* masks of n pixels whose only dark pixel is q
SinglePixelMasks(n) == {[p \in 0..(n - 1) |-> IF p = q THEN 0 ELSE 255] : q \in 0..(n - 1)}

\* masks the decoder may deliver for a working size w x h
MasksOf(w, h) ==
    IF w * h <= MaxArea THEN [0..(w * h - 1) -> MaskValues]
    ELSE SolidMasks(w * h) \cup SinglePixelMasks(w * h)

SourceDims == 0..Max(MaxArea, MaxSolidSide)

WorkingSizeOk(w, h) ==
    \/ w * h <= MaxArea
    \/ w <= MaxSolidSide /\ h <= MaxSolidSide

\* the 3x3 square whose top-left pixel is (x, y), as pixels of a w-wide image
Square(x, y, w) == {(y + dy) * w + (x + dx) : dx \in 0..2, dy \in 0..2}

\* top-left corners of two 3x3 squares in a w x h image that a whole
\* background column or a whole background row separates
SquarePairs(w, h) ==
    {c \in ((0..(w - 3)) \X (0..(h - 3))) \X ((0..(w - 3)) \X (0..(h - 3))) :
        \/ c[2][1] >= c[1][1] + 4
        \/ c[2][2] >= c[1][2] + 4}

\* masks of a w x h image whose dark pixels are exactly two such squares
TwoSquareMasks(w, h) ==
    {[p \in 0..(w * h - 1) |->
         IF p \in Square(c[1][1], c[1][2], w) \cup Square(c[2][1], c[2][2], w)
         THEN 0 ELSE 255] : c \in SquarePairs(w, h)}

SquaresSizeOk(w, h) == w <= MaxSquaresSide /\ h <= MaxSquaresSide

\* the image families of the specifications
MasksIn(family, w, h) ==
    CASE family = "small" -> MasksOf(w, h)
      [] family = "squares" -> TwoSquareMasks(w, h)
      [] family = "wide" -> SolidMasks(w * h)

SizeOkIn(family, w, h) ==
    CASE family = "small" -> WorkingSizeOk(w, h)
      [] family = "squares" -> SquaresSizeOk(w, h)
      [] family = "wide" -> TRUE

WideDims == 1..MaxSourceSide
WideMaxDimensions == (1..MaxSmallDimension) \cup {DefaultMaxDimension}

-----------------------------------------------------------------------------
(* Initial state: separateObjects has been called *)

\* the call with maxDimension from mds, and minPixels from mps or, on the
\* command line, from the third argument among args
InitWith(mds, mps, args) ==
    /\ asMain \in BOOLEAN
    /\ IF asMain
       THEN /\ threshold = DefaultThreshold
            /\ maxDimension = DefaultMaxDimension
            /\ minPixels \in {CliMinPixels(a) : a \in args}
       ELSE /\ threshold \in Thresholds
            /\ maxDimension \in mds
            /\ minPixels \in mps
    /\ width = 0
    /\ height = 0
    /\ run = 1
    /\ previous = <<>>
    /\ pc = "load"
    /\ scaledWidth = 0
    /\ scaledHeight = 0
    /\ maskData = <<>>
    /\ compositeData = <<>>
    /\ visited = <<>>
    /\ queueX = <<>>
    /\ queueY = <<>>
    /\ queueSize = 0
    /\ startX = 0
    /\ startY = 0
    /\ objectPixels = {}
    /\ bounds = [minX |-> 0, minY |-> 0, maxX |-> 0, maxY |-> 0]
    /\ truncated = FALSE
    /\ scanX = 0
    /\ scanY = 0
    /\ objects = <<>>
    /\ seeds = <<>>
    /\ cut = <<>>
    /\ tasks = <<>>
    /\ rasters = <<>>
    /\ files = <<>>
    /\ outOfOrder = FALSE
    /\ result = NoResult
    /\ error = None
    /\ cliLog = None
    /\ exitCode = NotExited

Init == InitWith(MaxDimensions, 0..MaxMinPixels, CliArgs)

-----------------------------------------------------------------------------
(* Settling of the promise separateObjects returns, and the command-line   *)
(* handlers attached to it, which run as soon as it settles                *)

\* catch (error) { console.error(...); throw error; }  then  .catch(...)
Reject(e) ==
    /\ pc' = "rejected"
    /\ error' = e
    /\ result' = result
    /\ cliLog' = IF asMain THEN "Failed to process image" ELSE cliLog

\* return objects.length;  then  .then(...)
Resolve(n) ==
    /\ pc' = "resolved"
    /\ result' = <<n>>
    /\ error' = error
    /\ cliLog' = IF asMain THEN "Successfully processed" ELSE cliLog

Running(next) ==
    /\ pc' = next
    /\ UNCHANGED <<result, error, cliLog>>

-----------------------------------------------------------------------------
(* Load: metadata, scaling, mask and composite buffers, visited, queues    *)

scanState == <<scanX, scanY, objects, seeds, cut>>
fillState == <<queueX, queueY, queueSize, startX, startY, objectPixels, bounds,
               truncated>>
imageState == <<width, height, scaledWidth, scaledHeight, maskData, compositeData>>
writeState == <<tasks, rasters, files, outOfOrder>>
optionState == <<asMain, threshold, minPixels, maxDimension>>
rerunState == <<run, previous>>

\* (!width || !height) throws
LoadInvalid ==
    /\ pc = "load"
    /\ \E sw \in SourceDims, sh \in SourceDims : sw = 0 \/ sh = 0
    /\ Reject("Invalid image dimensions")
    /\ UNCHANGED <<optionState, imageState, visited, fillState, scanState,
                   writeState, exitCode, rerunState>>

\* metadata() or toBuffer() rejects
LoadFail ==
    /\ pc = "load"
    /\ Reject("decode")
    /\ UNCHANGED <<optionState, imageState, visited, fillState, scanState,
                   writeState, exitCode, rerunState>>

\* a visited array kept from the previous call when the size fits
StaleVisited(w, h) ==
    IF DOMAIN visited = 0..(w * h - 1) THEN visited ELSE [p \in 0..(w * h - 1) |-> 0]

\* new Uint8Array(scaledWidth * scaledHeight)
NewVisited(w, h) == [p \in 0..(w * h - 1) |-> 0]

\* new Int32Array(maxQueueSize)
NewQueue(w, h) == [i \in 0..(w * h - 1) |-> 0]

\* metadata, scaling and buffers of a source with sides in dims and an image
\* of the given family
LoadImage(dims, family) ==
    /\ pc = "load"
    /\ \E sw \in dims, sh \in dims :
       \E w \in ScaledDims(sw, sw, sh, maxDimension),
          h \in ScaledDims(sh, sw, sh, maxDimension) :
              /\ sw # 0
              /\ sh # 0
              /\ SizeOkIn(family, w, h)
              /\ width' = sw
              /\ height' = sh
              /\ scaledWidth' = w
              /\ scaledHeight' = h
              /\ maskData' \in MasksIn(family, w, h)
              /\ compositeData' = CompositeOf(w * h)
              /\ visited' = NewVisited(w, h)
              /\ queueX' = NewQueue(w, h)
              /\ queueY' = NewQueue(w, h)
    /\ Running("scan")
    /\ UNCHANGED <<optionState, queueSize, startX, startY, objectPixels, bounds,
                   truncated, scanState, writeState, exitCode, rerunState>>

Load == LoadImage(SourceDims, "small")

-----------------------------------------------------------------------------
(* floodFill *)

maxQueueSize == scaledWidth * scaledHeight

\* a typed-array store: an index outside the array is ignored
Store(arr, i, v) == IF i \in DOMAIN arr THEN [arr EXCEPT ![i] = v] ELSE arr

\* SeedTest with a non-strict comparison
SeedTestAtMost(pos) == visited[pos] = 0 /\ maskData[pos] <= threshold

\* the scan loop's test: !visited[pos] && maskData[pos] < threshold
SeedTest(pos) == visited[pos] = 0 /\ maskData[pos] < threshold

\* Skip that lets a pixel equal to the threshold through
SkipAbove(x, y) ==
    \/ x < 0
    \/ x >= scaledWidth
    \/ y < 0
    \/ y >= scaledHeight
    \/ visited[y * scaledWidth + x] # 0
    \/ maskData[y * scaledWidth + x] > threshold

\* floodFill's continue condition
Skip(x, y) ==
    \/ x < 0
    \/ x >= scaledWidth
    \/ y < 0
    \/ y >= scaledHeight
    \/ visited[y * scaledWidth + x] # 0
    \/ maskData[y * scaledWidth + x] >= threshold

\* MarkVisited that leaves the flag clear
MarkVisitedNever(v, pos) == v

\* visited[pos] = 1
MarkVisited(v, pos) == [v EXCEPT ![pos] = 1]

\* ExpandBounds that never moves the left edge
ExpandBoundsNoMinX(b, x, y) ==
    [minX |-> b.minX, minY |-> IF b.minY <= y THEN b.minY ELSE y,
     maxX |-> IF b.maxX >= x THEN b.maxX ELSE x,
     maxY |-> IF b.maxY >= y THEN b.maxY ELSE y]

\* bounds after a visited pixel (x, y)
ExpandBounds(b, x, y) ==
    [minX |-> Min(b.minX, x), minY |-> Min(b.minY, y),
     maxX |-> Max(b.maxX, x), maxY |-> Max(b.maxY, y)]

\* a capacity test that leaves room for one entry only
HasRoomForOne(size) == size + 1 < maxQueueSize

\* the capacity test with the comparison turned round
HasRoomInverted(size) == size + 4 > maxQueueSize

\* the capacity test before the neighbour pushes
HasRoom(size) == size + 4 < maxQueueSize

\* Pushes without the upward neighbour
PushesNoUp(x, y) ==
    (IF x + 1 < scaledWidth THEN <<[x |-> x + 1, y |-> y]>> ELSE <<>>)
    \o (IF x - 1 >= 0 THEN <<[x |-> x - 1, y |-> y]>> ELSE <<>>)
    \o (IF y + 1 < scaledHeight THEN <<[x |-> x, y |-> y + 1]>> ELSE <<>>)

\* the neighbours pushed for (x, y), in push order
Pushes(x, y) ==
    (IF x + 1 < scaledWidth THEN <<[x |-> x + 1, y |-> y]>> ELSE <<>>)
    \o (IF x - 1 >= 0 THEN <<[x |-> x - 1, y |-> y]>> ELSE <<>>)
    \o (IF y + 1 < scaledHeight THEN <<[x |-> x, y |-> y + 1]>> ELSE <<>>)
    \o (IF y - 1 >= 0 THEN <<[x |-> x, y |-> y - 1]>> ELSE <<>>)

\* queue array after storing the values vs from index size on
PushAll(arr, size, vs) ==
    [i \in DOMAIN arr |->
        IF i >= size /\ i < size + Len(vs) THEN vs[i - size + 1] ELSE arr[i]]

\* the x and the y values of the pushed neighbours
CoordX(ps) == [i \in 1..Len(ps) |-> ps[i].x]
CoordY(ps) == [i \in 1..Len(ps) |-> ps[i].y]

\* floodFill(startX, startY) up to the while loop
FloodStart(x, y) ==
    /\ queueX' = Store(queueX, 0, x)
    /\ queueY' = Store(queueY, 0, y)
    /\ queueSize' = 1
    /\ startX' = x
    /\ startY' = y
    /\ objectPixels' = {}
    /\ bounds' = [minX |-> x, minY |-> y, maxX |-> x, maxY |-> y]
    /\ truncated' = FALSE

\* one iteration of while (queueSize > 0)
FloodStep ==
    /\ pc = "fill"
    /\ queueSize > 0
    /\ LET size == queueSize - 1
           x == queueX[size]
           y == queueY[size]
           pos == y * scaledWidth + x
       IN  IF Skip(x, y)
           THEN /\ queueSize' = size
                /\ UNCHANGED <<visited, objectPixels, bounds, queueX, queueY,
                               truncated>>
           ELSE /\ visited' = MarkVisited(visited, pos)
                /\ objectPixels' = objectPixels \cup {pos}
                /\ bounds' = ExpandBounds(bounds, x, y)
                /\ IF HasRoom(size)
                   THEN /\ queueX' = PushAll(queueX, size, CoordX(Pushes(x, y)))
                        /\ queueY' = PushAll(queueY, size, CoordY(Pushes(x, y)))
                        /\ queueSize' = size + Len(Pushes(x, y))
                        /\ UNCHANGED truncated
                   ELSE /\ queueSize' = size
                        /\ truncated' = TRUE
                        /\ UNCHANGED <<queueX, queueY>>
    /\ Running("fill")
    /\ UNCHANGED <<optionState, imageState, startX, startY, scanState,
                   writeState, exitCode, rerunState>>

\* Retain with a non-strict comparison
RetainAtLeast(size) == size >= minPixels

\* the size filter of the scan loop
Retain(size) == size > minPixels

\* NextSeed that visits every coordinate
NextSeedDense(c) == c + 1

\* the scan loop's step: x += 2, y += 2
NextSeed(c) == c + 2

\* floodFill returns; the scan loop filters the component and moves on
FloodReturn ==
    /\ pc = "fill"
    /\ queueSize = 0
    /\ IF Retain(Cardinality(objectPixels))
       THEN /\ objects' = Append(objects, [objectPixels |-> objectPixels,
                                           bounds |-> bounds])
            /\ seeds' = Append(seeds, startY * scaledWidth + startX)
            /\ cut' = Append(cut, truncated)
       ELSE UNCHANGED <<objects, seeds, cut>>
    /\ scanX' = NextSeed(scanX)
    /\ UNCHANGED scanY
    /\ Running("scan")
    /\ UNCHANGED <<optionState, imageState, visited, fillState, writeState,
                   exitCode, rerunState>>

-----------------------------------------------------------------------------
(* The scan loop *)

\* the body of the inner loop at (scanX, scanY)
ScanSeed ==
    /\ pc = "scan"
    /\ scanY < scaledHeight
    /\ scanX < scaledWidth
    /\ IF SeedTest(scanY * scaledWidth + scanX)
       THEN /\ FloodStart(scanX, scanY)
            /\ Running("fill")
            /\ UNCHANGED scanX
       ELSE /\ scanX' = NextSeed(scanX)
            /\ Running("scan")
            /\ UNCHANGED fillState
    /\ UNCHANGED <<optionState, imageState, visited, scanY, objects, seeds, cut,
                   writeState, exitCode, rerunState>>

\* the inner loop ends: y += 2
ScanRow ==
    /\ pc = "scan"
    /\ scanY < scaledHeight
    /\ scanX >= scaledWidth
    /\ scanY' = NextSeed(scanY)
    /\ scanX' = 0
    /\ Running("scan")
    /\ UNCHANGED <<optionState, imageState, visited, fillState, objects, seeds,
                   cut, writeState, exitCode, rerunState>>

\* the outer loop ends: console.log(`Found ...`)
ScanEnd ==
    /\ pc = "scan"
    /\ scanY >= scaledHeight
    /\ Running("mkdir")
    /\ UNCHANGED <<optionState, imageState, visited, fillState, scanState,
                   writeState, exitCode, rerunState>>

-----------------------------------------------------------------------------
(* Extraction: the synchronous part of the objects.map callback            *)

\* TargetPos without the translation to the crop window
TargetPosUntranslated(x, y, b, objWidth) == (y * objWidth + x) * 4

\* byte offset in objBuffer of the pixel (x, y) of a component with bounds b
TargetPos(x, y, b, objWidth) == ((y - b.minY) * objWidth + (x - b.minX)) * 4

\* the byte stored for channel c of the pixel pos
OutByte(pos, c) == IF c = 3 THEN 255 ELSE compositeData[pos * 4 + c]

\* the test guarding the copy of the pixel (x, y)
InBounds(x, y, b) == x >= b.minX /\ x <= b.maxX /\ y >= b.minY /\ y <= b.maxY

\* objWidth, objHeight and objBuffer of one component
Extract(obj) ==
    LET b == obj.bounds
        objWidth == b.maxX - b.minX + 1
        objHeight == b.maxY - b.minY + 1
        X(pos) == pos % scaledWidth
        Y(pos) == pos \div scaledWidth
        Writers(t) == {pos \in obj.objectPixels :
                          /\ InBounds(X(pos), Y(pos), b)
                          /\ t >= TargetPos(X(pos), Y(pos), b, objWidth)
                          /\ t <= TargetPos(X(pos), Y(pos), b, objWidth) + 3}
    IN  [width |-> objWidth,
         height |-> objHeight,
         data |-> [t \in 0..(objWidth * objHeight * 4 - 1) |->
                     IF Writers(t) = {} THEN 0
                     ELSE LET pos == CHOOSE q \in Writers(t) : TRUE
                          IN  OutByte(pos, t - TargetPos(X(pos), Y(pos), b, objWidth))]]

\* an index counted from one
ObjectIndexFromOne(i) == i

\* the index the map callback receives for the object at list position i
ObjectIndex(i) == i - 1

\* await fs.mkdir rejects
MkdirFail ==
    /\ pc = "mkdir"
    /\ Reject("mkdir")
    /\ UNCHANGED <<optionState, imageState, visited, fillState, scanState,
                   writeState, exitCode, rerunState>>

\* await fs.mkdir resolves; objects.map starts every encode/write
StartWrites ==
    /\ pc = "mkdir"
    /\ rasters' = [i \in 1..Len(objects) |-> Extract(objects[i])]
    /\ tasks' = [i \in 1..Len(objects) |-> "pending"]
    /\ IF Len(objects) = 0 THEN Resolve(Len(objects)) ELSE Running("write")
    /\ UNCHANGED <<optionState, imageState, visited, fillState, scanState, files,
                   outOfOrder, exitCode, rerunState>>

\* fulfilment as soon as one task has fulfilled
AnyDone(ts) == \E i \in 1..Len(ts) : ts[i] = "written"

\* Promise.all fulfils once every task has
AllDone(ts) == \A i \in 1..Len(ts) : ts[i] = "written"

\* toFile of the object at position i resolves: object_<index>.png is on disk
WriteOk(i) ==
    /\ pc \in {"write", "rejected"}
    /\ tasks[i] = "pending"
    /\ tasks' = [tasks EXCEPT ![i] = "written"]
    /\ files' = [k \in DOMAIN files \cup {ObjectIndex(i)} |->
                    IF k = ObjectIndex(i) THEN rasters[i] ELSE files[k]]
    /\ outOfOrder' = (outOfOrder \/ \E j \in 1..(i - 1) : tasks[j] = "pending")
    /\ IF pc = "write" /\ AllDone(tasks')
       THEN Resolve(Len(objects))
       ELSE Running(pc)
    /\ UNCHANGED <<optionState, imageState, visited, fillState, scanState,
                   rasters, exitCode, rerunState>>

\* toFile of the object at position i rejects
WriteFail(i) ==
    /\ pc \in {"write", "rejected"}
    /\ tasks[i] = "pending"
    /\ tasks' = [tasks EXCEPT ![i] = "failed"]
    /\ IF pc = "write" THEN Reject("encode") ELSE Running(pc)
    /\ UNCHANGED <<optionState, imageState, visited, fillState, scanState,
                   rasters, files, outOfOrder, exitCode, rerunState>>

-----------------------------------------------------------------------------
(* Command line: the process ends when nothing is pending                  *)

\* the status the process ends with: nothing sets process.exitCode
ExitStatus(settled) == 0

Exit ==
    /\ asMain
    /\ pc \in {"resolved", "rejected"}
    /\ exitCode = NotExited
    /\ \A i \in 1..Len(tasks) : tasks[i] # "pending"
    /\ exitCode' = <<ExitStatus(pc)>>
    /\ Running(pc)
    /\ UNCHANGED <<optionState, imageState, visited, fillState, scanState,
                   writeState, rerunState>>

-----------------------------------------------------------------------------

Next ==
    \/ LoadInvalid
    \/ LoadFail
    \/ Load
    \/ ScanSeed
    \/ ScanRow
    \/ ScanEnd
    \/ FloodStep
    \/ FloodReturn
    \/ MkdirFail
    \/ StartWrites
    \/ \E i \in 1..Len(tasks) : WriteOk(i)
    \/ \E i \in 1..Len(tasks) : WriteFail(i)
    \/ Exit

Spec == Init /\ [][Next]_vars

-----------------------------------------------------------------------------
(* The steps after the load, shared by the specifications *)

Scan ==
    \/ ScanSeed
    \/ ScanRow
    \/ ScanEnd
    \/ FloodStep
    \/ FloodReturn

Write ==
    \/ MkdirFail
    \/ StartWrites
    \/ \E i \in 1..Len(tasks) : WriteOk(i)
    \/ \E i \in 1..Len(tasks) : WriteFail(i)
    \/ Exit

-----------------------------------------------------------------------------
(* Runs with minPixels 5 on images that hold exactly two 3x3 squares *)

InitSquares == InitWith({DefaultMaxDimension}, {5}, {<<5>>})

LoadSquares == LoadImage(3..MaxSquaresSide, "squares")

NextSquares ==
    \/ LoadInvalid
    \/ LoadFail
    \/ LoadSquares
    \/ Scan
    \/ Write

SpecSquares == InitSquares /\ [][NextSquares]_vars

-----------------------------------------------------------------------------
(* The load alone, over a wide range of source sizes and maxDimension *)

InitScale == InitWith(WideMaxDimensions, 0..MaxMinPixels, CliArgs)

LoadWide == LoadImage(WideDims, "wide")

NextScale ==
    \/ LoadInvalid
    \/ LoadFail
    \/ LoadWide

SpecScale == InitScale /\ [][NextScale]_vars

-----------------------------------------------------------------------------
(* Two scans of the same image with the same options: the second call of   *)
(* separateObjects allocates visited, the queues and objects afresh        *)

ScanAgain ==
    /\ pc = "mkdir"
    /\ run = 1
    /\ run' = 2
    /\ previous' = objects
    /\ visited' = NewVisited(scaledWidth, scaledHeight)
    /\ queueX' = NewQueue(scaledWidth, scaledHeight)
    /\ queueY' = NewQueue(scaledWidth, scaledHeight)
    /\ queueSize' = 0
    /\ startX' = 0
    /\ startY' = 0
    /\ objectPixels' = {}
    /\ bounds' = [minX |-> 0, minY |-> 0, maxX |-> 0, maxY |-> 0]
    /\ truncated' = FALSE
    /\ scanX' = 0
    /\ scanY' = 0
    /\ objects' = <<>>
    /\ seeds' = <<>>
    /\ cut' = <<>>
    /\ Running("scan")
    /\ UNCHANGED <<optionState, imageState, writeState, exitCode>>

NextTwice ==
    \/ LoadInvalid
    \/ LoadFail
    \/ Load
    \/ Scan
    \/ ScanAgain

SpecTwice == Init /\ [][NextTwice]_vars

-----------------------------------------------------------------------------
(* The scan under the scheduling of the code: floodFill is a synchronous   *)
(* loop, so once it is entered its iterations and its return take place    *)

NextFill ==
    \/ LoadInvalid
    \/ LoadFail
    \/ Load
    \/ Scan

\* the options that floodFill reads: threshold; minPixels filters afterwards
InitFill == InitWith({DefaultMaxDimension}, {0}, {<<>>})

SpecFill ==
    /\ InitFill
    /\ [][NextFill]_vars
    /\ WF_vars(FloodStep)
    /\ WF_vars(FloodReturn)

-----------------------------------------------------------------------------
(* Vocabulary of the properties *)

Pixels == 0..(scaledWidth * scaledHeight - 1)
PixelX(pos) == pos % scaledWidth
PixelY(pos) == pos \div scaledWidth
Abs(n) == IF n < 0 THEN -n ELSE n

\* p and q are one up/down/left/right step apart
Adjacent(p, q) ==
    Abs(PixelX(p) - PixelX(q)) + Abs(PixelY(p) - PixelY(q)) = 1

Foreground(pos) == maskData[pos] < threshold

\* the pixels of allowed linked to S by chains of 4-steps inside allowed
RECURSIVE Connected(_, _)
Connected(S, allowed) ==
    LET more == S \cup {q \in allowed : \E p \in S : Adjacent(p, q)}
    IN  IF more = S THEN S ELSE Connected(more, allowed)

\* floodFill is about to return
Returning == pc = "fill" /\ queueSize = 0
\* the scan loop has finished
Scanned ==
    \/ pc \in {"mkdir", "write", "resolved"}
    \/ pc = "rejected" /\ error \in {"mkdir", "encode"}
SeedPos == startY * scaledWidth + startX

SetMin(S) == CHOOSE m \in S : \A n \in S : m <= n
SetMax(S) == CHOOSE m \in S : \A n \in S : m >= n

\* the exact bounding box of a non-empty pixel set
BoxOf(S) ==
    [minX |-> SetMin({PixelX(p) : p \in S}), minY |-> SetMin({PixelY(p) : p \in S}),
     maxX |-> SetMax({PixelX(p) : p \in S}), maxY |-> SetMax({PixelY(p) : p \in S})]

-----------------------------------------------------------------------------
(* C1: no linear pixel index belongs to the pixel sets of two different    *)
(* returned components, after any sequence of floodFill invocations        *)
(* sharing the one visited array; the component being filled shares no     *)
(* pixel with a returned one either.                                       *)
C1_NoOverlap ==
    /\ \A i, j \in 1..Len(objects) :
          i # j => objects[i].objectPixels \cap objects[j].objectPixels = {}
    /\ pc = "fill" =>
          \A i \in 1..Len(objects) : objects[i].objectPixels \cap objectPixels = {}

\* two returned components that touch: only the visited array keeps them apart
C1_Witness ==
    /\ Scanned
    /\ \E i, j \in 1..Len(objects) :
          /\ i # j
          /\ \E p \in objects[i].objectPixels, q \in objects[j].objectPixels :
                Adjacent(p, q)

-----------------------------------------------------------------------------
(* C2 as stated: floodFill, called on an unvisited foreground seed,        *)
(* returns every foreground pixel connected to the seed through 4-steps    *)
(* over foreground pixels, for every image size and mask.                  *)
C2_Original ==
    Returning =>
        objectPixels = Connected({SeedPos}, {p \in Pixels : Foreground(p)})

(* C2 with the capacity test never failing in this call, but counting      *)
(* pixels visited by earlier calls as reachable.                           *)
C2_IgnoringVisited ==
    (Returning /\ ~truncated) =>
        objectPixels = Connected({SeedPos}, {p \in Pixels : Foreground(p)})

\* the pixels that were unvisited when the current floodFill call began
UnvisitedAtStart == {p \in Pixels : visited[p] = 0 \/ p \in objectPixels}

(* C2 amended: when the capacity test never failed during the call, the    *)
(* returned set is the maximal set of foreground pixels, unvisited when    *)
(* the call began, that are connected to the seed by 4-steps through such  *)
(* pixels.                                                                 *)
C2_Amended ==
    (Returning /\ ~truncated) =>
        objectPixels =
            Connected({SeedPos}, {p \in UnvisitedAtStart : Foreground(p)})

\* an untruncated fill of a region that is not a straight line
C2_Witness ==
    /\ Returning
    /\ ~truncated
    /\ Cardinality(objectPixels) >= 4
    /\ bounds.minX < bounds.maxX
    /\ bounds.minY < bounds.maxY

-----------------------------------------------------------------------------
-----------------------------------------------------------------------------
(* C4: for every component floodFill produces, bounds are exactly the      *)
(* minimum and maximum x and y over its pixel set; the pixel set is        *)
(* non-empty, lies inside the bounds, and 0 <= minX <= maxX < width,       *)
(* 0 <= minY <= maxY < height.                                             *)
ExactBounds(S, b) ==
    /\ S # {}
    /\ b = BoxOf(S)
    /\ \A p \in S : /\ b.minX <= PixelX(p) /\ PixelX(p) <= b.maxX
                    /\ b.minY <= PixelY(p) /\ PixelY(p) <= b.maxY
    /\ 0 <= b.minX /\ b.minX <= b.maxX /\ b.maxX < scaledWidth
    /\ 0 <= b.minY /\ b.minY <= b.maxY /\ b.maxY < scaledHeight

C4_ExactBounds ==
    /\ Returning => ExactBounds(objectPixels, bounds)
    /\ \A i \in 1..Len(objects) :
          ExactBounds(objects[i].objectPixels, objects[i].bounds)

\* a component that grew to every side of its seed's row and column
C4_Witness ==
    /\ Returning
    /\ bounds.minX < startX
    /\ bounds.maxX > startX
    /\ bounds.maxY > startY

-----------------------------------------------------------------------------
(* C5: for every retained component the extracted raster has width         *)
(* maxX-minX+1 and height maxY-minY+1, and every cell (tx,ty) holds the    *)
(* R,G,B of the composite pixel (tx+minX, ty+minY) with alpha 255 when     *)
(* that pixel is in the component's pixel set, and (0,0,0,0) otherwise.    *)
CellOk(o, r, tx, ty) ==
    LET pos == (ty + o.bounds.minY) * scaledWidth + (tx + o.bounds.minX)
        cell == (ty * r.width + tx) * 4
    IN  IF pos \in o.objectPixels
        THEN /\ r.data[cell] = compositeData[pos * 4]
             /\ r.data[cell + 1] = compositeData[pos * 4 + 1]
             /\ r.data[cell + 2] = compositeData[pos * 4 + 2]
             /\ r.data[cell + 3] = 255
        ELSE \A c \in 0..3 : r.data[cell + c] = 0

-----------------------------------------------------------------------------
(* C6: under every completion order of the parallel encode/write tasks, if *)
(* the run resolves, a file has been written for every retained component  *)
(* and the resolved count is the number of retained components; if any     *)
(* object's encode/write fails, the run rejects and resolves with no count. *)
C6_AllOrNothing ==
    /\ pc = "resolved" =>
          /\ result = <<Len(objects)>>
          /\ \A i \in 1..Len(objects) :
                /\ tasks[i] = "written"
                /\ ObjectIndex(i) \in DOMAIN files
                /\ files[ObjectIndex(i)] = rasters[i]
    /\ (\E i \in 1..Len(tasks) : tasks[i] = "failed") =>
          /\ pc = "rejected"
          /\ result = NoResult

\* a run of several objects resolved although a later object's write finished
\* before an earlier one's
C6_Witness ==
    /\ pc = "resolved"
    /\ Len(objects) >= 2
    /\ outOfOrder

-----------------------------------------------------------------------------
(* C7: retained components are ordered by the scan order of their seeds    *)
(* (row-major), and the component at list position i is the one written to *)
(* object_i.png, the indices being exactly 0..n-1 for n components.        *)
C7_ScanOrder ==
    /\ Len(seeds) = Len(objects)
    /\ \A i \in 1..Len(objects) : seeds[i] \in objects[i].objectPixels
    /\ \A i, j \in 1..Len(objects) :
          i < j =>
             \/ PixelY(seeds[i]) < PixelY(seeds[j])
             \/ /\ PixelY(seeds[i]) = PixelY(seeds[j])
                /\ PixelX(seeds[i]) < PixelX(seeds[j])
    /\ \A k \in DOMAIN files :
          /\ k \in 0..(Len(objects) - 1)
          /\ files[k] = Extract(objects[k + 1])
    /\ pc = "resolved" => DOMAIN files = 0..(Len(objects) - 1)

\* three files on disk, from seeds on two scan rows
C7_Witness ==
    /\ pc = "resolved"
    /\ Len(objects) >= 3
    /\ DOMAIN files = 0..(Len(objects) - 1)
    /\ PixelY(seeds[1]) < PixelY(seeds[Len(seeds)])

-----------------------------------------------------------------------------
(* C8: each emitted object image preserves the source's colour and         *)
(* transparency: for every pixel of the component the output R, G, B and   *)
(* alpha equal the source composite pixel's R, G, B and alpha.             *)
C8_PreservesAlpha ==
    \A i \in 1..Len(rasters) :
        \A pos \in objects[i].objectPixels :
            LET b == objects[i].bounds
                cell == ((PixelY(pos) - b.minY) * rasters[i].width
                         + (PixelX(pos) - b.minX)) * 4
            IN  \A c \in 0..3 : rasters[i].data[cell + c] = compositeData[pos * 4 + c]

-----------------------------------------------------------------------------
(* C9: when the program is run from the command line and separateObjects   *)
(* fails, the process terminates with a non-zero exit status.              *)
C9_FailureExitStatus ==
    (asMain /\ pc = "rejected" /\ exitCode # NotExited) => exitCode[1] # 0

-----------------------------------------------------------------------------
(* C10: on a 4x4 image whose mask is 0 everywhere, with threshold 240 and  *)
(* minPixels 0, the scan returns exactly one component whose pixel set is  *)
(* all 16 pixels and whose bounds are (0,0)-(3,3).                         *)
AllForeground4x4 ==
    /\ scaledWidth = 4
    /\ scaledHeight = 4
    /\ \A p \in Pixels : maskData[p] = 0
    /\ threshold = 240
    /\ minPixels = 0

C10_AllForeground4x4 ==
    (AllForeground4x4 /\ Scanned) =>
        /\ Len(objects) = 1
        /\ objects[1].objectPixels = 0..15
        /\ objects[1].bounds = [minX |-> 0, minY |-> 0, maxX |-> 3, maxY |-> 3]

\* the scenario's scan has finished, and its one fill met the capacity limit
C10_Witness ==
    /\ AllForeground4x4
    /\ Scanned
    /\ Len(cut) = 1
    /\ cut[1]

-----------------------------------------------------------------------------
(* C11: for every image size and every placement in which the foreground   *)
(* is exactly two 3x3 squares separated by at least one background row or  *)
(* column, with minPixels 5 the scan returns exactly 2 components, each    *)
(* holding exactly the 9 pixels of one square.                             *)
IsSquare(S) ==
    \E x \in 0..(scaledWidth - 3), y \in 0..(scaledHeight - 3) :
        S = Square(x, y, scaledWidth)

C11_TwoSquares ==
    (Scanned /\ minPixels = 5) =>
        /\ Len(objects) = 2
        /\ \A i \in 1..2 :
              /\ Cardinality(objects[i].objectPixels) = 9
              /\ IsSquare(objects[i].objectPixels)
        /\ objects[1].objectPixels \cup objects[2].objectPixels
              = {p \in Pixels : Foreground(p)}

\* both squares found, one of them from a seed that is not its top-left pixel
C11_Witness ==
    /\ Scanned
    /\ minPixels = 5
    /\ Len(objects) = 2
    /\ \E i \in 1..2 :
          seeds[i] # objects[i].bounds.minY * scaledWidth + objects[i].bounds.minX

-----------------------------------------------------------------------------
(* C12: for every image whose mask is entirely >= threshold, floodFill is  *)
(* never invoked, the returned component list is empty, and the run        *)
(* reports 0 objects.                                                      *)
\* the image has been loaded
Loaded == width > 0

NoForeground == \A p \in Pixels : maskData[p] >= threshold

C12_NoForeground ==
    (Loaded /\ NoForeground) =>
        /\ pc # "fill"
        /\ queueSize = 0
        /\ objectPixels = {}
        /\ \A p \in Pixels : visited[p] = 0
        /\ objects = <<>>
        /\ tasks = <<>>
        /\ pc = "resolved" => result = <<0>>

\* a run on at least four pixels, all equal to the threshold, resolved
C12_Witness ==
    /\ Loaded
    /\ NoForeground
    /\ scaledWidth * scaledHeight >= 4
    /\ threshold = 255
    /\ pc = "resolved"

-----------------------------------------------------------------------------
(* C13: for every source width, height >= 1 and maxDimension >= 1, the     *)
(* working image's larger dimension does not exceed maxDimension; when     *)
(* max(width, height) <= maxDimension the working dimensions equal the     *)
(* source dimensions, otherwise they are round(width * s) and              *)
(* round(height * s) with s = maxDimension / max(width, height).           *)
\* r is an integer nearest to n / d
IsRounded(r, n, d) == 2 * Abs(r * d - n) <= d

\* r is n / d rounded to the nearest integer, halves upwards
IsRoundedHalfUp(r, n, d) == 2 * d * r <= 2 * n + d /\ 2 * n + d < 2 * d * (r + 1)

(* C13 with every half rounded upwards, as Math.round does on the exact     *)
(* product: the double product of a halfway case can round downwards.      *)
C13_HalfUp ==
    (Loaded /\ Max(width, height) > maxDimension) =>
        /\ IsRoundedHalfUp(scaledWidth, width * maxDimension, Max(width, height))
        /\ IsRoundedHalfUp(scaledHeight, height * maxDimension, Max(width, height))

C13_Scaling ==
    Loaded =>
        /\ Max(scaledWidth, scaledHeight) <= maxDimension
        /\ IF Max(width, height) <= maxDimension
           THEN scaledWidth = width /\ scaledHeight = height
           ELSE /\ IsRounded(scaledWidth, width * maxDimension, Max(width, height))
                /\ IsRounded(scaledHeight, height * maxDimension, Max(width, height))

\* a resized image whose shorter side was rounded upwards
C13_Witness ==
    /\ Loaded
    /\ width > maxDimension
    /\ height < width
    /\ scaledHeight >= 2
    /\ scaledHeight * width > height * maxDimension

-----------------------------------------------------------------------------
(* C20: for every source with width >= 1 and height >= 1 and every         *)
(* maxDimension >= 1, both working dimensions scaledWidth and scaledHeight *)
(* are at least 1.                                                         *)
C20_PositiveDimensions ==
    Loaded => scaledWidth >= 1 /\ scaledHeight >= 1

-----------------------------------------------------------------------------
-----------------------------------------------------------------------------
\* the maximal 4-connected foreground region of the foreground pixel p
RegionOf(p) == Connected({p}, {q \in Pixels : Foreground(q)})

\* pos has both coordinates even
EvenEven(pos) == PixelX(pos) % 2 = 0 /\ PixelY(pos) % 2 = 0

\* a 4x4 image whose only foreground pixel is (1, 1)
OnlyPixel11 ==
    /\ scaledWidth = 4
    /\ scaledHeight = 4
    /\ \A p \in Pixels : Foreground(p) <=> p = 5
    /\ minPixels = 0

(* C15: floodFill is only ever started at seeds whose x and y are both     *)
(* even, so a maximal 4-connected foreground region with no pixel of even  *)
(* x and even y appears in no returned component; the 4x4 image whose only *)
(* foreground pixel is (1,1) yields 0 components. The components are       *)
(* examined when floodFill returns and when the scan loop has ended        *)
(* (objects does not change afterwards).                                   *)
C15_EvenSeeds ==
    /\ pc = "fill" => (startX % 2 = 0 /\ startY % 2 = 0)
    /\ (Returning \/ pc = "mkdir") =>
          \A p \in Pixels :
             (/\ Foreground(p)
              /\ \/ \E i \in 1..Len(objects) : p \in objects[i].objectPixels
                 \/ Returning /\ p \in objectPixels)
             => \E q \in RegionOf(p) : EvenEven(q)
    /\ (OnlyPixel11 /\ Scanned) => objects = <<>>

\* the scan of the 4x4 image with the single foreground pixel (1, 1) has
\* finished, with a minPixels that would retain a one-pixel component
C15_Witness ==
    /\ OnlyPixel11
    /\ Scanned
    /\ Len(objects) = 0

-----------------------------------------------------------------------------
\* the work-list size stays inside the queue arrays
QueueInRange ==
    /\ queueSize >= 0
    /\ queueSize <= scaledWidth * scaledHeight
    /\ pc = "fill" => DOMAIN queueX = 0..(scaledWidth * scaledHeight - 1)
    /\ pc = "fill" => DOMAIN queueY = 0..(scaledWidth * scaledHeight - 1)

\* a step of the while loop enqueues only when size + 4 < width*height,
\* where size is the work-list size after the pop
EnqueuesWithinCapacity ==
    (pc = "fill" /\ pc' = "fill") =>
        /\ queueSize' >= queueSize - 1
        /\ queueSize' <= queueSize + 3
        /\ (queueSize - 1) + 4 < scaledWidth * scaledHeight
           \/ (queueSize' = queueSize - 1 /\ queueX' = queueX /\ queueY' = queueY)

(* C16: in every reachable state of every floodFill invocation the         *)
(* work-list size is between 0 and width*height inclusive and no entry is  *)
(* written at an index >= capacity; neighbours of a visited pixel are      *)
(* enqueued only when size + 4 < width*height, otherwise none of them is.  *)
C16_QueueCapacity == []QueueInRange /\ [][EnqueuesWithinCapacity]_vars

\* a fill that has refused the neighbours of a pixel while entries remain
C16_Witness ==
    /\ pc = "fill"
    /\ truncated
    /\ queueSize > 0

-----------------------------------------------------------------------------
\* the pixels not yet visited
Unvisited == {p \in Pixels : visited[p] = 0}

\* an iteration of the while loop either visits a new pixel or shortens the
\* work list
FillProgress ==
    (pc = "fill" /\ pc' = "fill") =>
        \/ Cardinality(Unvisited') < Cardinality(Unvisited)
        \/ Unvisited' = Unvisited /\ queueSize' < queueSize

(* C17: every floodFill invocation terminates: the work list eventually    *)
(* becomes empty and a Component is returned to the scan loop, whether or  *)
(* not capacity truncation occurred, and truncation raises no error.       *)
C17_Terminates ==
    /\ [][FillProgress]_vars
    /\ (pc = "fill") ~> (pc = "fill" /\ queueSize = 0)
    /\ (pc = "fill" /\ truncated) ~> (pc = "scan" /\ error = None)
    /\ (pc = "fill" /\ queueSize = 0) ~> (pc = "scan" /\ error = None)

\* a fill that met the capacity limit has returned its component
C17_Witness ==
    /\ pc = "scan"
    /\ Len(cut) > 0
    /\ cut[Len(cut)]
    /\ queueSize = 0
    /\ error = None

-----------------------------------------------------------------------------
\* S is made of in-bounds pixels strictly below the threshold, each linked to
\* seed by up/down/left/right steps through S
WellFormedComponent(S, seed) ==
    /\ S \subseteq Pixels
    /\ \A p \in S : maskData[p] < threshold /\ maskData[p] # threshold
    /\ S # {} => S = Connected({seed}, S)

\* p and q touch at a corner only
Diagonal(p, q) ==
    Abs(PixelX(p) - PixelX(q)) = 1 /\ Abs(PixelY(p) - PixelY(q)) = 1

\* a pixel enters the component being filled only if it was unvisited, and
\* no visited flag is cleared
EntersUnvisited ==
    /\ pc' = "fill" => \A p \in objectPixels' \ objectPixels : visited[p] = 0
    /\ \A p \in DOMAIN visited :
          (visited[p] # 0 /\ DOMAIN visited' = DOMAIN visited) => visited'[p] # 0

(* C18: every pixel placed in a component by floodFill is in bounds, was   *)
(* unvisited before the invocation, is strictly below the threshold (a     *)
(* pixel whose mask equals the threshold is never included) and is linked  *)
(* to the seed by up/down/left/right steps through pixels of the same      *)
(* component; pixels touching only diagonally are not joined by that.      *)
C18_ComponentPixels ==
    /\ [](pc = "fill" => WellFormedComponent(objectPixels, SeedPos))
    /\ [](\A i \in 1..Len(objects) :
              WellFormedComponent(objects[i].objectPixels, seeds[i]))
    /\ [][EntersUnvisited]_vars

\* a returned component with a foreground pixel at one of its corners left
\* out, found with a mask value equal to the threshold next to it
C18_Witness ==
    /\ Scanned
    /\ threshold = 255
    /\ \E i \in 1..Len(objects) :
          \E p \in objects[i].objectPixels :
             /\ \E q \in Pixels \ objects[i].objectPixels :
                   Diagonal(p, q) /\ Foreground(q)
             /\ \E q \in Pixels : Adjacent(p, q) /\ maskData[q] = threshold

-----------------------------------------------------------------------------
\* separateObjects has resolved with a count or rejected with an error
Settled == pc \in {"resolved", "rejected"}

(* C19: once separateObjects has settled, no object file write is still    *)
(* pending or starts afterwards; when one write fails among several        *)
(* parallel writes, no other object_i.png is written after the failure     *)
(* has been reported to the caller.                                        *)
C19_NoWriteAfterSettle ==
    Settled => \A i \in 1..Len(tasks) : tasks[i] # "pending"

====
